---- MODULE Spec2Model ----
(***************************************************************************)
(* Model of tretool/pyToExe.py : class PyToExeBuilder.                     *)
(*                                                                         *)
(* A file name is a sequence of one-character strings, a path is a         *)
(* sequence of file names, and the disk is the set of paths that exist.    *)
(* Python exceptions are denoted by their class names; "None" is no        *)
(* exception.  The error kinds of the specification are                    *)
(*   FileNotFound = FileNotFoundError, UnsupportedInputType = ValueError,  *)
(*   UnsupportedPlatform = NotImplementedError,                            *)
(*   MissingBuildTool = RuntimeError, ArtifactNotFound = StopIteration.    *)
(***************************************************************************)
EXTENDS Integers, Sequences, FiniteSets, TLC

VARIABLES
    host,        \* platform.system() of the machine the program runs on
    installed,   \* whether the PyInstaller module can be imported
    manifest,    \* the lines pipreqs writes for the script's directory
    fs,          \* the disk: the set of existing paths
    builder,     \* <<>> or <<the PyToExeBuilder object the caller holds>>
    ntemp,       \* number of directories tempfile.mkdtemp has made
    last         \* the outcome of the latest call, as the caller sees it

vars == <<host, installed, manifest, fs, builder, ntemp, last>>

---------------------------------------------------------------------------
(* Bounds *)

MaxTemp == 1    \* mkdtemp calls in one behaviour
MaxLines == 2   \* lines of a requirements manifest
MaxDeps == 3    \* length of the dependency list

---------------------------------------------------------------------------
(* File names *)

PY_SUFFIX == <<".", "p", "y">>
EXE_SUFFIX == <<".", "e", "x", "e">>
BUILD == <<"b", "u", "i", "l", "d">>
DIST == <<"d", "i", "s", "t">>
REQUIREMENTS_TXT ==
    <<"r", "e", "q", "u", "i", "r", "e", "m", "e", "n", "t", "s", ".", "t",
      "x", "t">>
SRC == <<"s", "r", "c">>

A_PY == <<"a", ".", "p", "y">>
A_B_PY == <<"a", ".", "b", ".", "p", "y">>
DOT_PY == <<".", "p", "y">>
A_TXT == <<"a", ".", "t", "x", "t">>
A_UPPER == <<"a", ".", "P", "Y">>
M_PY == <<"m", ".", "p", "y">>
M_TXT == <<"m", ".", "t", "x", "t">>
M_NOEXT == <<"m">>
I_ICO == <<"i", ".", "i", "c", "o">>
J_ICO == <<"j", ".", "i", "c", "o">>
APP == <<"a", "p", "p">>
W == <<"w">>
Digit == <<"1", "2", "3", "4", "5", "6", "7", "8", "9">>

\* The files of the caller's source directory; the program never writes there.
SourceFiles == {A_PY, DOT_PY, A_TXT, A_UPPER, I_ICO}
\* The script names a caller passes: those of SourceFiles exist, the m* ones
\* and a.b.py do not.
ScriptNames == {A_PY, A_B_PY, DOT_PY, A_TXT, A_UPPER, M_PY, M_TXT, M_NOEXT}
IconNames == {I_ICO, J_ICO}
\* work_dir arguments: <<>> is None; <<W>> is a path that does not exist yet.
NonePath == <<>>
WorkDirArgs == {NonePath, <<W>>}
\* output_name arguments: <<>> is None
OutputNameArgs == {<<>>, APP}
Hosts == {"Windows", "Linux", "Darwin", "FreeBSD"}

None == "None"

---------------------------------------------------------------------------
(* pathlib and shutil *)

Parent(p) == SubSeq(p, 1, Len(p) - 1)
Name(p) == p[Len(p)]
IsPrefix(d, p) == Len(d) <= Len(p) /\ SubSeq(p, 1, Len(d)) = d
Exists(f, p) == p \in f

\* str.rfind('.') : the last index of a dot, 0 when there is none
RFindDot(name) ==
    LET dots == {i \in 1..Len(name) : name[i] = "."}
    IN  IF dots = {} THEN 0 ELSE CHOOSE i \in dots : \A j \in dots : j <= i

\* PurePath.suffix : the part from the last dot on, unless that dot is the
\* first or the last character of the name
Suffix(p) ==
    LET name == Name(p)
        i == RFindDot(name)
    IN  IF 1 < i /\ i < Len(name) THEN SubSeq(name, i, Len(name)) ELSE <<>>

\* PurePath.stem
Stem(p) ==
    LET name == Name(p)
        i == RFindDot(name)
    IN  IF 1 < i /\ i < Len(name) THEN SubSeq(name, 1, i - 1) ELSE name

\* Path.mkdir(exist_ok=True), without parents=True
Mkdir(f, p) ==
    IF p \in f THEN [fs |-> f, exc |-> None]
    ELSE IF Len(p) > 1 /\ Parent(p) \notin f
         THEN [fs |-> f, exc |-> "FileNotFoundError"]
         ELSE [fs |-> f \cup {p}, exc |-> None]

\* shutil.rmtree
Rmtree(f, d) == {p \in f : ~IsPrefix(d, p)}

\* tempfile.mkdtemp(prefix="py2exe_") : the n-th fresh directory
TempDir(n) == << <<"t", Digit[n]>> >>

---------------------------------------------------------------------------
(* PyToExeBuilder *)

\* _validate_environment with the suffix check moved before the existence check
ValidateEnvironmentSuffixFirst(self, f, h) ==
    IF ~(Suffix(self.script_path) = PY_SUFFIX) THEN "ValueError"
    ELSE IF ~Exists(f, self.script_path) THEN "FileNotFoundError"
    ELSE IF h \notin {"Windows", "Linux", "Darwin"} THEN "NotImplementedError"
    ELSE None

\* _validate_environment : the exception it raises, or None
ValidateEnvironment(self, f, h) ==
    IF ~Exists(f, self.script_path) THEN "FileNotFoundError"
    ELSE IF ~(Suffix(self.script_path) = PY_SUFFIX) THEN "ValueError"
    ELSE IF h \notin {"Windows", "Linux", "Darwin"} THEN "NotImplementedError"
    ELSE None

\* __init__ : the fields are assigned, mkdtemp runs when no work_dir is given,
\* and validation comes last
NewBuilder(script, output_name, work_dir, n) ==
    LET script_path == <<SRC, script>>
    IN  [script_path |-> script_path,
         output_name |-> IF output_name # <<>> THEN output_name
                         ELSE Stem(script_path),
         work_dir |-> IF work_dir # NonePath THEN work_dir ELSE TempDir(n + 1),
         dependencies |-> <<>>,
         icon_path |-> NonePath]

Result(op, exc, ret, stages, onefile, clean) ==
    [op |-> op, exc |-> exc, ret |-> ret, stages |-> stages,
     onefile |-> onefile, clean |-> clean]

InitResult(script, output_name, work_dir, f, h, n) ==
    LET self == NewBuilder(script, output_name, work_dir, n)
        f1 == IF work_dir = NonePath THEN f \cup {self.work_dir} ELSE f
    IN  [self |-> self, fs |-> f1,
         ntemp |-> IF work_dir = NonePath THEN n + 1 ELSE n,
         exc |-> ValidateEnvironment(self, f1, h)]

\* PyToExeBuilder(script, output_name, work_dir) : when __init__ raises, the
\* caller gets no object and keeps the one it had
Construct(script, output_name, work_dir) ==
    /\ work_dir = NonePath => ntemp < MaxTemp
    /\ LET r == InitResult(script, output_name, work_dir, fs, host, ntemp)
       IN  /\ fs' = r.fs
           /\ ntemp' = r.ntemp
           /\ builder' = IF r.exc = None THEN <<r.self>> ELSE builder
           /\ last' = Result("init", r.exc, NonePath, {}, FALSE, FALSE)
    /\ UNCHANGED <<host, installed, manifest>>


\* add_dependencies
AddDependencies(packages) ==
    /\ builder # <<>>
    /\ Len(builder[1].dependencies) + Len(packages) <= MaxDeps
    /\ builder' = <<[builder[1] EXCEPT
                       !.dependencies = builder[1].dependencies \o packages]>>
    /\ last' = Result("add_dependencies", None, NonePath, {}, FALSE, FALSE)
    /\ UNCHANGED <<host, installed, manifest, fs, ntemp>>

\* set_icon : the field is assigned first, the existence check comes after
SetIconResult(self, f, icon_path) ==
    LET assigned == [self EXCEPT !.icon_path = icon_path]
    IN  [self |-> assigned,
         exc |-> IF ~Exists(f, assigned.icon_path) THEN "FileNotFoundError"
                 ELSE None]

SetIcon(icon) ==
    /\ builder # <<>>
    /\ LET r == SetIconResult(builder[1], fs, <<SRC, icon>>)
       IN  /\ builder' = <<r.self>>
           /\ last' = Result("set_icon", r.exc, NonePath, {}, FALSE, FALSE)
    /\ UNCHANGED <<host, installed, manifest, fs, ntemp>>

---------------------------------------------------------------------------
(* detect_dependencies *)

Whitespace == {" ", "\t", "\n"}

RECURSIVE LStrip(_)
LStrip(s) == IF s # <<>> /\ s[1] \in Whitespace THEN LStrip(Tail(s)) ELSE s

RECURSIVE RStrip(_)
RStrip(s) ==
    IF s # <<>> /\ s[Len(s)] \in Whitespace
    THEN RStrip(SubSeq(s, 1, Len(s) - 1)) ELSE s

\* str.strip()
Strip(s) == RStrip(LStrip(s))

\* str.startswith('#')
StartsWithHash(s) == s # <<>> /\ s[1] = "#"

\* str.split('==')[0] : the text before the first '=='
SplitPin(s) ==
    LET pins == {i \in 1..(Len(s) - 1) : s[i] = "=" /\ s[i + 1] = "="}
    IN  IF pins = {} THEN s
        ELSE SubSeq(s, 1, (CHOOSE i \in pins : \A j \in pins : i <= j) - 1)

\* the loop body without the split: the version pin stays in the entry
ParseLineKeepsPin(raw) ==
    LET line == Strip(raw)
    IN  IF line # <<>> /\ ~StartsWithHash(line) THEN <<line>> ELSE <<>>

\* the body of the loop over the manifest's lines: what one line appends
ParseLine(raw) ==
    LET line == Strip(raw)
    IN  IF line # <<>> /\ ~StartsWithHash(line) THEN <<SplitPin(line)>>
        ELSE <<>>

RECURSIVE ParseLines(_)
ParseLines(lines) ==
    IF lines = <<>> THEN <<>>
    ELSE ParseLine(Head(lines)) \o ParseLines(Tail(lines))

\* detect_dependencies.
\*   pip      : how the pipreqs subprocess ends: "missing" (no such program),
\*              "nonzero" (check=True raises), "ok" (it wrote the manifest)
\*   lines    : the lines pipreqs wrote
\*   nread    : how many lines the iteration over the file delivers
\*   readErr  : whether the iteration then raises (I/O or decoding error)
\* Every exception is caught, so the caller never sees one; "warning" in
\* stages records that the except branch ran.
DetectResult(self, f, pip, lines, nread, readErr) ==
    LET req_file == self.work_dir \o <<REQUIREMENTS_TXT>>
        written == pip = "ok" /\ Exists(f, self.work_dir)
        f1 == IF written THEN f \cup {req_file} ELSE f
        opened == pip = "ok" /\ Exists(f1, req_file)
        appended == IF opened THEN ParseLines(SubSeq(lines, 1, nread))
                    ELSE <<>>
        failed == pip # "ok" \/ ~opened \/ readErr
    IN  [self |-> [self EXCEPT !.dependencies = self.dependencies \o appended],
         fs |-> f1,
         stages |-> IF failed THEN {"warning"} ELSE {}]

DetectDependencies(pip, nread, readErr) ==
    /\ builder # <<>>
    /\ nread \in 0..Len(manifest)
    /\ ~readErr => nread = Len(manifest)
    /\ LET r == DetectResult(builder[1], fs, pip, manifest, nread, readErr)
       IN  /\ Len(r.self.dependencies) <= MaxDeps
           /\ builder' = <<r.self>>
           /\ fs' = r.fs
           /\ last' = Result("detect_dependencies", None, NonePath, r.stages,
                             FALSE, FALSE)
    /\ UNCHANGED <<host, installed, manifest, ntemp>>

---------------------------------------------------------------------------
(* build *)

\* _prepare_build_env
PrepareBuildEnv(self, f) ==
    LET m1 == Mkdir(f, self.work_dir \o <<BUILD>>)
        m2 == Mkdir(m1.fs, self.work_dir \o <<DIST>>)
        copied == m2.fs \cup {self.work_dir \o <<Name(self.script_path)>>}
    IN  IF m1.exc # None THEN m1
        ELSE IF m2.exc # None THEN m2
        ELSE IF ~Exists(m2.fs, self.script_path)
             THEN [fs |-> m2.fs, exc |-> "FileNotFoundError"]
        ELSE [fs |-> copied, exc |-> None]

\* fnmatch of one path component: '*' and '?' are the wildcards
RECURSIVE FnMatch(_, _)
FnMatch(pat, name) ==
    IF pat = <<>> THEN name = <<>>
    ELSE IF pat[1] = "*"
         THEN FnMatch(Tail(pat), name)
              \/ (name # <<>> /\ FnMatch(pat, Tail(name)))
    ELSE /\ name # <<>>
         /\ (pat[1] = "?" \/ pat[1] = name[1])
         /\ FnMatch(Tail(pat), Tail(name))

\* Path.glob(pattern) : the entries of dir whose names match
Glob(f, dir, pattern) ==
    {p \in f : Len(p) = Len(dir) + 1 /\ Parent(p) = dir
               /\ FnMatch(pattern, Name(p))}

\* next(generator) : StopIteration when the generator is empty
NextOf(matches) ==
    IF matches = {} THEN [exc |-> "StopIteration", ret |-> NonePath]
    ELSE [exc |-> None, ret |-> CHOOSE p \in matches : TRUE]

\* _find_output_file
FindOutputFile(self, f, h, onefile) ==
    LET dist_dir == self.work_dir \o <<DIST>>
    IN  IF onefile
        THEN IF h = "Windows"
             THEN NextOf(Glob(f, dist_dir, self.output_name \o EXE_SUFFIX))
             ELSE NextOf(Glob(f, dist_dir, self.output_name))
        ELSE IF h = "Windows"
             THEN [exc |-> None,
                   ret |-> dist_dir \o <<self.output_name,
                                         self.output_name \o EXE_SUFFIX>>]
             ELSE [exc |-> None,
                   ret |-> dist_dir \o <<self.output_name, self.output_name>>]

\* the argument vector _build_with_pyinstaller hands to PyInstaller
PyinstallerArgs(self, onefile) ==
    [script |-> self.work_dir \o <<Name(self.script_path)>>,
     name |-> self.output_name,
     distpath |-> self.work_dir \o <<DIST>>,
     onefile |-> onefile,
     icon |-> self.icon_path,
     hidden_imports |-> self.dependencies]

\* pyinstaller.run(args) on Windows.
\*   backend : "error" (it raises), "nothing" (it returns without
\*             producing the executable), "artifact" (it produces it)
PyinstallerRun(f, args, backend) ==
    IF backend = "error" THEN [fs |-> f, exc |-> "BackendError"]
    ELSE IF backend = "nothing" THEN [fs |-> f, exc |-> None]
    ELSE IF args.onefile
         THEN [fs |-> f \cup {args.distpath \o <<args.name \o EXE_SUFFIX>>},
               exc |-> None]
    ELSE [fs |-> f \cup {args.distpath \o <<args.name>>,
                         args.distpath \o <<args.name,
                                            args.name \o EXE_SUFFIX>>},
          exc |-> None]

\* _build_with_pyinstaller
BuildWithPyinstaller(self, f, h, inst, onefile, backend) ==
    IF ~inst
    THEN [fs |-> f, exc |-> "RuntimeError", ret |-> NonePath, stages |-> {}]
    ELSE LET run == PyinstallerRun(f, PyinstallerArgs(self, onefile), backend)
             found == FindOutputFile(self, run.fs, h, onefile)
         IN  IF run.exc # None
             THEN [fs |-> run.fs, exc |-> run.exc, ret |-> NonePath,
                   stages |-> {}]
             ELSE [fs |-> run.fs, exc |-> found.exc, ret |-> found.ret,
                   stages |-> IF found.exc = None THEN {"invoke", "locate"}
                              ELSE {"invoke"}]

\* build, step 2 : the branch on platform.system().  The class defines
\* neither _build_with_linux nor _build_with_mac, so looking them up raises.
SelectAndInvoke(self, f, h, inst, onefile, backend) ==
    IF h = "Windows" THEN BuildWithPyinstaller(self, f, h, inst, onefile, backend)
    ELSE IF h = "Linux"
         THEN [fs |-> f, exc |-> "AttributeError", ret |-> NonePath,
               stages |-> {}]
    ELSE IF h = "Darwin"
         THEN [fs |-> f, exc |-> "AttributeError", ret |-> NonePath,
               stages |-> {}]
    ELSE [fs |-> f, exc |-> "NotImplementedError", ret |-> NonePath,
          stages |-> {}]

\* _cleanup
Cleanup(self, f) == IF Exists(f, self.work_dir) THEN Rmtree(f, self.work_dir) ELSE f

\* build, step 3 written as a finally clause: the workspace is removed
\* whether or not step 2 raised
BuildTailAlwaysCleans(self, r, clean) ==
    IF clean
    THEN [r EXCEPT !.fs = Cleanup(self, r.fs),
                   !.stages = IF r.exc = None THEN r.stages \cup {"cleanup"}
                              ELSE r.stages]
    ELSE r

\* build, step 3 : r is the outcome of step 2.  An exception of step 2 has
\* left build already; otherwise the workspace is removed when clean is set.
BuildTail(self, r, clean) ==
    IF r.exc # None THEN r
    ELSE IF clean
         THEN [r EXCEPT !.fs = Cleanup(self, r.fs),
                        !.stages = r.stages \cup {"cleanup"}]
    ELSE r

\* build
BuildResult(self, f, h, inst, onefile, clean, backend) ==
    LET p == PrepareBuildEnv(self, f)
        r == SelectAndInvoke(self, p.fs, h, inst, onefile, backend)
    IN  IF p.exc # None
        THEN [fs |-> p.fs, exc |-> p.exc, ret |-> NonePath, stages |-> {}]
        ELSE BuildTail(self, [r EXCEPT !.stages = r.stages \cup {"prepare"}],
                       clean)

Backends == {"error", "nothing", "artifact"}

Build(onefile, clean, backend) ==
    /\ builder # <<>>
    /\ LET r == BuildResult(builder[1], fs, host, installed, onefile, clean,
                            backend)
       IN  /\ fs' = r.fs
           /\ last' = Result("build", r.exc, r.ret, r.stages, onefile, clean)
    /\ UNCHANGED <<host, installed, manifest, builder, ntemp>>

\* a direct call of _find_output_file
Locate(onefile) ==
    /\ builder # <<>>
    /\ LET r == FindOutputFile(builder[1], fs, host, onefile)
       IN  last' = Result("find_output_file", r.exc, r.ret, {}, onefile, FALSE)
    /\ UNCHANGED <<host, installed, manifest, fs, builder, ntemp>>

\* quick_build : cls(script_path, output_name).detect_dependencies()
\* .build(onefile=onefile); the object lives only inside the call
\* (io : the pip, lines, nread and readErr of the detection)
QuickBuildResult(script, output_name, onefile, f, h, inst, n, io, backend) ==
    LET c == InitResult(script, output_name, NonePath, f, h, n)
        d == DetectResult(c.self, c.fs, io.pip, io.lines, io.nread,
                          io.readErr)
        b == BuildResult(d.self, d.fs, h, inst, onefile, TRUE, backend)
    IN  IF c.exc # None
        THEN [fs |-> c.fs, ntemp |-> c.ntemp, exc |-> c.exc, ret |-> NonePath,
              stages |-> {}]
        ELSE [fs |-> b.fs, ntemp |-> c.ntemp, exc |-> b.exc, ret |-> b.ret,
              stages |-> d.stages \cup b.stages]

QuickBuild(script, output_name, onefile, pip, nread, readErr, backend) ==
    /\ ntemp < MaxTemp
    /\ nread \in 0..Len(manifest)
    /\ ~readErr => nread = Len(manifest)
    /\ LET io == [pip |-> pip, lines |-> manifest, nread |-> nread,
                  readErr |-> readErr]
           r == QuickBuildResult(script, output_name, onefile, fs, host,
                                 installed, ntemp, io, backend)
       IN  /\ fs' = r.fs
           /\ ntemp' = r.ntemp
           /\ last' = Result("quick_build", r.exc, r.ret, r.stages, onefile,
                             TRUE)
    /\ UNCHANGED <<host, installed, manifest, builder>>

---------------------------------------------------------------------------
(* Inputs *)

L_PINNED == <<"r", "=", "=", "2">>
L_COMMENT == <<"#", "c">>
L_BARE == <<"n">>
L_PADDED == <<" ", "x", "=", "=", "1", " ">>
L_INDENTED_COMMENT == <<" ", "#", "c">>
L_BLANK == <<" ", "\n">>
L_TWO_PINS == <<"q", "=", "=", "1", "=", "=", "2">>
L_ONE_EQ == <<"k", "=", "1">>
L_BARE_PIN == <<"=", "=", "1">>

\* the manifest "requests==2.31.0\n# comment\n\nnumpy", as the file
\* iteration delivers it: each line but the last ends in a newline
L_REQUESTS ==
    <<"r", "e", "q", "u", "e", "s", "t", "s", "=", "=", "2", ".", "3", "1",
      ".", "0", "\n">>
L_HASH_COMMENT == <<"#", " ", "c", "o", "m", "m", "e", "n", "t", "\n">>
L_NEWLINE == <<"\n">>
L_NUMPY == <<"n", "u", "m", "p", "y">>
REQUESTS == <<"r", "e", "q", "u", "e", "s", "t", "s">>
ExampleManifest == <<L_REQUESTS, L_HASH_COMMENT, L_NEWLINE, L_NUMPY>>

ManifestLines ==
    {L_PINNED, L_COMMENT, L_BARE, L_PADDED, L_INDENTED_COMMENT, L_BLANK,
     L_TWO_PINS, L_ONE_EQ, L_BARE_PIN}

SeqsUpTo(S, n) == UNION {[1..k -> S] : k \in 0..n}

\* the manifests of the specification of detect_dependencies alone
Manifests == SeqsUpTo(ManifestLines, MaxLines) \cup {ExampleManifest}
\* the manifests of the specification of the whole class
FewManifests == {<<L_PINNED, L_COMMENT>>}
\* the scripts of the specification of the whole class: one that is valid,
\* one that is missing, one with the wrong suffix
FewScriptNames == {A_PY, M_PY, A_TXT}
PipOutcomes == {"missing", "nonzero", "ok"}
PackageArgs == {<< <<"p">> >>}

---------------------------------------------------------------------------

InitWith(hosts, backends, manifests) ==
    /\ host \in hosts
    /\ installed \in backends
    /\ manifest \in manifests
    /\ fs = {<<SRC>>} \cup {<<SRC, n>> : n \in SourceFiles}
    /\ builder = <<>>
    /\ ntemp = 0
    /\ last = Result("none", None, NonePath, {}, FALSE, FALSE)

\* The whole class, on a few scripts and one manifest.  The dependency list
\* grows by detection only; add_dependencies is part of SpecDetect.
Init == InitWith(Hosts, BOOLEAN, FewManifests)

Next ==
    \/ \E s \in FewScriptNames, w \in WorkDirArgs : Construct(s, <<>>, w)
    \/ \E i \in IconNames : SetIcon(i)
    \/ \E pip \in PipOutcomes, n \in 0..Len(manifest), e \in BOOLEAN :
          DetectDependencies(pip, n, e)
    \/ \E onefile \in BOOLEAN, clean \in BOOLEAN, backend \in Backends :
          Build(onefile, clean, backend)
    \/ \E onefile \in BOOLEAN : Locate(onefile)
    \/ \E s \in FewScriptNames, onefile \in BOOLEAN, pip \in PipOutcomes,
          n \in 0..Len(manifest), e \in BOOLEAN, backend \in Backends :
          QuickBuild(s, <<>>, onefile, pip, n, e, backend)

Spec == Init /\ [][Next]_vars

\* detect_dependencies on its own, over every manifest; it does not look at
\* the host or at PyInstaller
InitDetect == InitWith({"Linux"}, {FALSE}, Manifests)

NextDetect ==
    \/ \E w \in WorkDirArgs : Construct(A_PY, <<>>, w)
    \/ \E pk \in PackageArgs : AddDependencies(pk)
    \/ \E pip \in PipOutcomes, n \in 0..Len(manifest), e \in BOOLEAN :
          DetectDependencies(pip, n, e)

SpecDetect == InitDetect /\ [][NextDetect]_vars

\* construction on its own, over every script name
NextValidate ==
    \E s \in ScriptNames, o \in OutputNameArgs, w \in WorkDirArgs :
        Construct(s, o, w)

SpecValidate == Init /\ [][NextValidate]_vars

---------------------------------------------------------------------------
(* Claims *)

Supported == {"Windows", "Linux", "Darwin"}

\* C1: a construction that fails with FileNotFound leaves the disk as it
\* was: no workDir exists afterwards that did not exist before.
C1_NoWorkspaceOnMissingScript ==
    [][(last'.op = "init" /\ last'.exc = "FileNotFoundError") => fs' = fs]_vars

\* a file name of more than three characters that ends in ".py"
EndsInDotPy(name) ==
    /\ Len(name) > 3
    /\ name[Len(name) - 2] = "."
    /\ name[Len(name) - 1] = "p"
    /\ name[Len(name)] = "y"

FirstFailingCheck(script) ==
    IF <<SRC, script>> \notin fs THEN "FileNotFoundError"
    ELSE IF ~EndsInDotPy(script) THEN "ValueError"
    ELSE IF host \notin Supported THEN "NotImplementedError"
    ELSE None

\* C2: construction reports the first failing check of (script exists,
\* suffix is '.py', host is supported), and yields the object exactly when
\* all three pass.
C2_ValidationOrder ==
    [][\A s \in ScriptNames, o \in OutputNameArgs, w \in WorkDirArgs :
          Construct(s, o, w) =>
              /\ last'.exc = FirstFailingCheck(s)
              /\ last'.exc = None =>
                     builder' # <<>> /\ builder'[1].script_path = <<SRC, s>>
              /\ last'.exc # None => builder' = builder]_vars

\* an existing script with a wrong suffix was rejected on an unsupported host
C2_Witness ==
    last.op = "init" /\ last.exc = "ValueError" /\ host = "FreeBSD"

Staged(self) ==
    {self.work_dir, self.work_dir \o <<BUILD>>, self.work_dir \o <<DIST>>,
     self.work_dir \o <<Name(self.script_path)>>}

\* C3: build removes workDir only after preparation, invocation and
\* location have succeeded and only when clean is set; a build that fails
\* removes nothing from the disk, and one that fails after preparation
\* leaves workDir with its build/, dist/ and copied script in place.
C3_CleanupOnlyOnSuccess ==
    [][last'.op = "build" =>
          /\ "cleanup" \in last'.stages =>
                 /\ last'.clean
                 /\ last'.exc = None
                 /\ {"prepare", "invoke", "locate"} \subseteq last'.stages
          /\ ~(fs \subseteq fs') => "cleanup" \in last'.stages
          /\ last'.exc # None =>
                 /\ fs \subseteq fs'
                 /\ "prepare" \in last'.stages =>
                        Staged(builder[1]) \subseteq fs']_vars

\* a build with clean set failed because the backend is missing, and the
\* staged workspace is on disk
C3_Witness ==
    /\ last.op = "build" /\ last.clean /\ last.exc = "RuntimeError"
    /\ Staged(builder[1]) \subseteq fs

\* C4: after a successful build with clean set, the returned path exists
\* and workDir does not.
C4_ArtifactSurvivesCleanup ==
    (last.op = "build" /\ last.exc = None /\ last.clean) =>
        (last.ret \in fs /\ builder[1].work_dir \notin fs)

ExpectedArtifact(self, onefile) ==
    LET exe == IF host = "Windows" THEN self.output_name \o EXE_SUFFIX
               ELSE self.output_name
    IN  IF onefile THEN self.work_dir \o <<DIST, exe>>
        ELSE self.work_dir \o <<DIST, self.output_name, exe>>

\* C5: the locator returns the expected path when it exists and fails with
\* ArtifactNotFound when it does not.
C5_LocatorNeverReturnsMissingPath ==
    last.op = "find_output_file" =>
        IF ExpectedArtifact(builder[1], last.onefile) \in fs
        THEN last.exc = None
             /\ last.ret = ExpectedArtifact(builder[1], last.onefile)
        ELSE last.exc = "StopIteration"

\* C6: on a supported host, a build whose preparation succeeds and whose
\* backend is available and produces the executable reaches artifact
\* location; only an unsupported host makes build raise UnsupportedPlatform.
C6_EverySupportedHostBuilds ==
    [][\A onefile \in BOOLEAN, clean \in BOOLEAN :
          Build(onefile, clean, "artifact") =>
              /\ (host \in Supported /\ installed
                  /\ "prepare" \in last'.stages) => "locate" \in last'.stages
              /\ last'.exc = "NotImplementedError" => host \notin Supported]_vars

\* C7: a detection that fails raises nothing, returns the same request and
\* leaves every field of it, the dependency list included, as it was.
C7_FailedDetectionKeepsDependencies ==
    [][(last'.op = "detect_dependencies" /\ "warning" \in last'.stages) =>
          last'.exc = None /\ builder' = builder]_vars

\* the line without its leading and trailing whitespace
Trimmed(line) ==
    LET solid == {i \in 1..Len(line) : line[i] \notin {" ", "\t", "\n"}}
    IN  IF solid = {} THEN <<>>
        ELSE SubSeq(line, CHOOSE i \in solid : \A j \in solid : i <= j,
                    CHOOSE i \in solid : \A j \in solid : j <= i)

\* the prefix of the text that ends where its first "==" begins
BeforePin(text) ==
    LET n == CHOOSE k \in 0..Len(text) :
                 /\ k = Len(text) \/ (k + 2 <= Len(text) /\ text[k + 1] = "="
                                      /\ text[k + 2] = "=")
                 /\ \A i \in 1..k : i + 1 <= Len(text) =>
                        ~(text[i] = "=" /\ text[i + 1] = "=")
    IN  SubSeq(text, 1, n)

RECURSIVE ExpectedEntries(_)
ExpectedEntries(lines) ==
    IF lines = <<>> THEN <<>>
    ELSE LET t == Trimmed(lines[Len(lines)])
             front == ExpectedEntries(SubSeq(lines, 1, Len(lines) - 1))
         IN  IF t = <<>> \/ t[1] = "#" THEN front
             ELSE Append(front, BeforePin(t))

\* C8: a successful detection appends, behind the dependencies already
\* present and in manifest order, the text before the first '==' of every
\* line that is non-empty after trimming and is not a comment; the example
\* manifest appends 'requests' and 'numpy'.
C8_DetectionAppendsPackageNames ==
    [][(last'.op = "detect_dependencies" /\ last'.stages = {}) =>
          /\ builder'[1].dependencies =
                 builder[1].dependencies \o ExpectedEntries(manifest)
          /\ manifest = ExampleManifest =>
                 builder'[1].dependencies =
                     builder[1].dependencies \o <<REQUESTS, L_NUMPY>>]_vars

\* the example manifest was detected behind a dependency added by hand
C8_Witness ==
    /\ last.op = "detect_dependencies" /\ last.stages = {}
    /\ manifest = ExampleManifest
    /\ builder[1].dependencies = << <<"p">>, REQUESTS, L_NUMPY >>

\* C9: whatever the state of the workspace, the preparation step of build
\* succeeds and leaves workDir/build, workDir/dist and the copied script.
C9_PrepareAlwaysSucceeds ==
    [][last'.op = "build" =>
          /\ "prepare" \in last'.stages
          /\ "cleanup" \notin last'.stages =>
                 Staged(builder[1]) \subseteq fs']_vars

\* C10: a set_icon that fails with FileNotFound leaves iconPath as it was.
C10_FailedSetIconKeepsIcon ==
    [][(last'.op = "set_icon" /\ last'.exc = "FileNotFoundError") =>
          builder'[1].icon_path = builder[1].icon_path]_vars

====
